---- MODULE Spec2Model ----
(***************************************************************************)
(* State machine of the hour-slot planner: the AppState held by App.tsx,   *)
(* the mutations App.tsx applies to it, the click handlers of the views    *)
(* that call those mutations, and the derived schedule and statistics.     *)
(***************************************************************************)
EXTENDS Integers, Sequences, FiniteSets, TLC

\* ------------------------------------------------------------------ bounds
NumTasks == 3
NumDates == 2
NumHours == 2
MaxOps == 3
CapTasks == 6
CapOps == 6
LoadedTasks == 5
LoadedOps == 2
StatsOps == 2
TargetTasks == 2
TargetOps == 3
MaxValue == 2
MaxFrequency == 2
ImportOps == 2
MaxQueue == 2
BatchOps == 2

\* ------------------------------------------------------- program constants
SlotCapacity == 4

TaskIds == 1..NumTasks
Dates == 1..NumDates
ModelHours == 9..(8 + NumHours)
NULL == 0
Names == {"n1", "n2"}

\* a task: targets is NoTargets when the optional field is absent
NoTargets == [mode |-> "none", value |-> 0, frequency |-> 0]
Task(id, name, targets) == [id |-> id, name |-> name, targets |-> targets]
NoTask == Task(NULL, "", NoTargets)

VARIABLES tasks, schedule, recurringSchedule, records, reviews,
          currentDate, activeTab, selectedTaskId, isRepeatMode,
          activeSlot, isRecurringMode, analysisMode, idSeq, last, ops,
          missingFields, queue, probe, storage, boot

appState == <<tasks, schedule, recurringSchedule, records, reviews>>
viewState == <<currentDate, activeTab, selectedTaskId, isRepeatMode,
               activeSlot, isRecurringMode, analysisMode>>
vars == <<tasks, schedule, recurringSchedule, records, reviews,
          currentDate, activeTab, selectedTaskId, isRepeatMode,
          activeSlot, isRecurringMode, analysisMode, idSeq, last, ops,
          missingFields, queue, probe, storage, boot>>
\* missingFields: the AppState fields an imported document left undefined;
\* queue: the state updaters handed to setState and not yet applied
\* storage: the snapshot services/storage holds; boot: how far the mount of
\* App has come
restState == <<missingFields, queue, probe, storage, boot>>

\* ----------------------------------------------------------- list helpers
\* obj[key] || dflt
Lookup(obj, key, dflt) == IF key \in DOMAIN obj THEN obj[key] ELSE dflt

\* { ...obj, [key]: value }
Put(obj, key, value) ==
    [k \in (DOMAIN obj) \cup {key} |-> IF k = key THEN value ELSE obj[k]]

EmptyObj == [k \in {} |-> <<>>]
EmptyDay == [hours |-> EmptyObj]

\* Array.prototype.includes
includes(list, id) == \E i \in 1..Len(list) : list[i] = id

\* list.filter(x => x !== id)
RECURSIVE filterOut(_, _)
filterOut(list, id) ==
    IF list = <<>> THEN <<>>
    ELSE IF Head(list) = id THEN filterOut(Tail(list), id)
         ELSE <<Head(list)>> \o filterOut(Tail(list), id)

ArrayFromSet_keepDuplicates(list) == list

\* Array.from(new Set(list)): insertion order, later duplicates dropped
RECURSIVE ArrayFromSet(_)
ArrayFromSet(list) ==
    IF list = <<>> THEN <<>>
    ELSE LET init == ArrayFromSet(SubSeq(list, 1, Len(list) - 1))
             x == list[Len(list)]
         IN IF includes(init, x) THEN init ELSE Append(init, x)

\* list.slice(1)
slice1(list) == IF list = <<>> THEN <<>> ELSE Tail(list)

\* list.slice(-n)
sliceLast(list, n) ==
    IF Len(list) <= n THEN list ELSE SubSeq(list, Len(list) - n + 1, Len(list))

\* ------------------------------------------------- derived state (App.tsx)
hoursOf(store, date) == Lookup(store, date, EmptyDay).hours

MergedHours_templateFirst(specific, recurringData) ==
    [h \in (DOMAIN specific) \cup (DOMAIN recurringData) |->
        IF h \in DOMAIN recurringData
        THEN ArrayFromSet(recurringData[h] \o Lookup(specific, h, <<>>))
        ELSE specific[h]]

MergedHours(specific, recurringData) ==
    [h \in (DOMAIN specific) \cup (DOMAIN recurringData) |->
        IF h \in DOMAIN recurringData
        THEN ArrayFromSet(Lookup(specific, h, <<>>) \o recurringData[h])
        ELSE specific[h]]

\* the effective schedule of a date
EffectiveSchedule(sched, recurringData, date) ==
    [hours |-> MergedHours(hoursOf(sched, date), recurringData)]

currentSchedule == EffectiveSchedule(schedule, recurringSchedule, currentDate)
currentRecord_withTemplate ==
    [hours |-> MergedHours(Lookup(records, currentDate, EmptyDay).hours,
                           recurringSchedule)]

currentRecord == Lookup(records, currentDate, EmptyDay)

\* ------------------------------------------------------------- mutations
updateScheduleHour_freshDay(sched, date, hour, taskIds) ==
    Put(sched, date, [hours |-> Put(EmptyObj, hour, taskIds)])

updateScheduleHour(sched, date, hour, taskIds) ==
    Put(sched, date, [hours |-> Put(hoursOf(sched, date), hour, taskIds)])

updateRecurringSchedule_append(recurringData, hour, taskIds) ==
    Put(EmptyObj, hour, Lookup(recurringData, hour, <<>>) \o taskIds)

updateRecurringSchedule(recurringData, hour, taskIds) ==
    Put(EmptyObj, hour, taskIds)

\* the updater of updateRecordHour applied to recs: the hours of the date
\* are rebuilt from shown, the currentRecord of the render that created
\* the handler
updateRecordHour(recs, shown, date, hour, taskIds) ==
    Put(recs, date, [hours |-> Put(shown.hours, hour, taskIds)])

\* filter the id out of every hour list of every dated entry
cascadeDays(store, taskId) ==
    [d \in DOMAIN store |->
        [hours |-> [h \in DOMAIN store[d].hours |->
                        filterOut(store[d].hours[h], taskId)]]]

cascadeRecurring_skipped(recurringData, taskId) == recurringData

cascadeRecurring(recurringData, taskId) ==
    [h \in DOMAIN recurringData |-> filterOut(recurringData[h], taskId)]

replaceTask_upsert(list, updatedTask) ==
    IF \E i \in 1..Len(list) : list[i].id = updatedTask.id
    THEN [i \in 1..Len(list) |->
             IF list[i].id = updatedTask.id THEN updatedTask ELSE list[i]]
    ELSE Append(list, updatedTask)

\* prev.tasks.map(t => t.id === updatedTask.id ? updatedTask : t)
replaceTask(list, updatedTask) ==
    [i \in 1..Len(list) |->
        IF list[i].id = updatedTask.id THEN updatedTask ELSE list[i]]

removeTask(list, taskId) == SelectSeq(list, LAMBDA t : t.id # taskId)

\* ------------------------------------------------- statistics (StatsView)
\* fractional credit is counted in units of 1/CreditUnit hour
CreditUnit == 60
DaysPerWeek == 7
DaysPerMonth == 30

\* Math.round(num / den) for num >= 0, den > 0
RoundDiv(num, den) == (2 * num + den) \div (2 * den)

\* sum of f[x] over the finite set S
RECURSIVE SumOver(_, _)
SumOver(S, f) ==
    IF S = {} THEN 0
    ELSE LET x == CHOOSE y \in S : TRUE IN f[x] + SumOver(S \ {x}, f)

occurrences(list, id) == Cardinality({i \in 1..Len(list) : list[i] = id})

\* plannedCounts[tid]: one per occurrence in every hour list
plannedCount(scheduleData, id) ==
    SumOver(DOMAIN scheduleData.hours,
            [h \in DOMAIN scheduleData.hours |->
                occurrences(scheduleData.hours[h], id)])

actualCount_wholeHour(recordData, id) ==
    SumOver(DOMAIN recordData.hours,
            [h \in DOMAIN recordData.hours |->
                occurrences(recordData.hours[h], id) * CreditUnit])

\* actualCounts[tid]: 1 / actual.length per occurrence
actualCount(recordData, id) ==
    SumOver(DOMAIN recordData.hours,
            [h \in DOMAIN recordData.hours |->
                LET actual == recordData.hours[h] IN
                IF actual = <<>> THEN 0
                ELSE occurrences(actual, id) * (CreditUnit \div Len(actual))])

percentageOf(planned, actual) ==
    IF planned > 0 THEN RoundDiv(actual * 100, planned * CreditUnit)
    ELSE IF actual > 0 THEN 100 ELSE 0

statusColor_strict(percentage) ==
    IF percentage > 80 THEN "#10b981"
    ELSE IF percentage > 50 THEN "#f59e0b" ELSE "#f43f5e"

statusColor(percentage) ==
    IF percentage >= 80 THEN "#10b981"
    ELSE IF percentage >= 50 THEN "#f59e0b" ELSE "#f43f5e"

\* stable sort, larger percentage first
RECURSIVE sortByPercentage(_)
sortByPercentage(rows) ==
    IF rows = <<>> THEN <<>>
    ELSE LET rest == sortByPercentage(Tail(rows))
             r == Head(rows)
             k == Cardinality({i \in 1..Len(rest) :
                                 rest[i].percentage > r.percentage})
         IN SubSeq(rest, 1, k) \o <<r>> \o SubSeq(rest, k + 1, Len(rest))

statRow(task, scheduleData, recordData) ==
    LET planned == plannedCount(scheduleData, task.id)
        actual == actualCount(recordData, task.id)
        percentage == percentageOf(planned, actual)
    IN [id |-> task.id, planned |-> planned, credit |-> actual,
        actual |-> RoundDiv(actual * 10, CreditUnit),
        percentage |-> percentage, statusColor |-> statusColor(percentage)]

dailyStatsOf(taskList, scheduleData, recordData) ==
    sortByPercentage(SelectSeq(
        [i \in 1..Len(taskList) |->
            statRow(taskList[i], scheduleData, recordData)],
        LAMBDA r : r.planned > 0 \/ r.credit > 0))

dailyStats == dailyStatsOf(tasks, currentSchedule, currentRecord)

\* days of the week / month that holds the reference date
windowDays(mode, dateObj) ==
    LET n == IF mode = "weekly" THEN DaysPerWeek ELSE DaysPerMonth
        first == ((dateObj - 1) \div n) * n + 1
    IN first..(first + n - 1)

rollupPlanned_dayOnly(sched, recurringData, day, h) ==
    Lookup(hoursOf(sched, day), h, <<>>)

\* planned ids of one hour as the rollup reads them: template first
rollupPlanned(sched, recurringData, day, h) ==
    ArrayFromSet(Lookup(recurringData, h, <<>>)
                 \o Lookup(hoursOf(sched, day), h, <<>>))

totalPlannedSlots(sched, recurringData, day) ==
    LET H == DOMAIN recurringData \cup DOMAIN hoursOf(sched, day)
    IN SumOver(H, [h \in H |-> Len(rollupPlanned(sched, recurringData, day, h))])

completedSlots_allRecorded(sched, recurringData, recs, day) ==
    LET H == DOMAIN recurringData \cup DOMAIN hoursOf(sched, day)
    IN SumOver(H, [h \in H |->
           IF rollupPlanned(sched, recurringData, day, h) = <<>> THEN 0
           ELSE Len(Lookup(hoursOf(recs, day), h, <<>>))])

completedSlots(sched, recurringData, recs, day) ==
    LET H == DOMAIN recurringData \cup DOMAIN hoursOf(sched, day)
    IN SumOver(H, [h \in H |->
           LET pTasks == rollupPlanned(sched, recurringData, day, h)
               rTasks == Lookup(hoursOf(recs, day), h, <<>>)
           IN Cardinality({i \in 1..Len(pTasks) : includes(rTasks, pTasks[i])})])

dayScore_scoreOnly(sched, recurringData, recs, day) ==
    LET total == totalPlannedSlots(sched, recurringData, day)
        done == completedSlots(sched, recurringData, recs, day)
        score == IF total = 0 THEN 0 ELSE RoundDiv(done * 100, total)
    IN [day |-> day, score |-> score, hasPlan |-> score > 0]

dayScore(sched, recurringData, recs, day) ==
    LET total == totalPlannedSlots(sched, recurringData, day)
        done == completedSlots(sched, recurringData, recs, day)
    IN [day |-> day,
        score |-> IF total = 0 THEN 0 ELSE RoundDiv(done * 100, total),
        hasPlan |-> total > 0]

scoresOf(sched, recurringData, recs, days) ==
    [d \in days |-> dayScore(sched, recurringData, recs, d)]

averageOf_allDays(sc) ==
    LET activeDays == {d \in DOMAIN sc : sc[d].hasPlan}
    IN IF Cardinality(activeDays) > 0
       THEN RoundDiv(SumOver(activeDays, [d \in activeDays |-> sc[d].score]),
                     Cardinality(DOMAIN sc))
       ELSE 0

averageOf(sc) ==
    LET activeDays == {d \in DOMAIN sc : sc[d].hasPlan}
    IN IF Cardinality(activeDays) > 0
       THEN RoundDiv(SumOver(activeDays, [d \in activeDays |-> sc[d].score]),
                     Cardinality(activeDays))
       ELSE 0

chartData ==
    IF analysisMode = "none" THEN [d \in {} |-> 0]
    ELSE scoresOf(schedule, recurringSchedule, records,
                  windowDays(analysisMode, currentDate))

averageScore ==
    IF analysisMode = "none" THEN 0 ELSE averageOf(chartData)

\* --------------------------------------- target progress (task pool)
\* tasks.find(t => t.id === tid): the first task carrying the id
findTask(taskList, tid) ==
    taskList[CHOOSE i \in 1..Len(taskList) :
                /\ taskList[i].id = tid
                /\ \A j \in 1..(i - 1) : taskList[j].id # tid]

taskProgressOf_creditOnly(taskList, recordData, tid) ==
    actualCount(recordData, tid)

\* stats[tid] of the day, in units of 1/CreditUnit: one per recorded
\* occurrence in count mode, 1 / ids.length per occurrence otherwise
taskProgressOf(taskList, recordData, tid) ==
    IF \A i \in 1..Len(taskList) : taskList[i].id # tid THEN 0
    ELSE IF findTask(taskList, tid).targets.mode = "count"
         THEN SumOver(DOMAIN recordData.hours,
                      [h \in DOMAIN recordData.hours |->
                          occurrences(recordData.hours[h], tid) * CreditUnit])
         ELSE actualCount(recordData, tid)

taskProgress == [i \in 1..Len(tasks) |->
                    taskProgressOf(tasks, currentRecord, tasks[i].id)]

\* one block of the task pool: progress is the exact quotient num / den,
\* capped at 100
poolBlock(task, currentVal) ==
    LET target == task.targets
        hasDailyTarget == /\ target # NoTargets
                          /\ target.value > 0
        num == currentVal * target.frequency * 100
        den == target.value * CreditUnit
        capped == hasDailyTarget /\ num >= 100 * den
    IN [id |-> task.id,
        currentVal |-> currentVal,
        progress |-> IF ~hasDailyTarget THEN [num |-> 0, den |-> 1]
                     ELSE IF capped THEN [num |-> 100, den |-> 1]
                     ELSE [num |-> num, den |-> den],
        isCompleted |-> capped]

poolBlocks == [i \in 1..Len(tasks) |-> poolBlock(tasks[i], taskProgress[i])]

\* ----------------------------------- per-task summaries of a window
actualTotalOf(task, recs, days) ==
    SumOver(days, [d \in days |->
        LET rec == hoursOf(recs, d) IN
        SumOver(DOMAIN rec, [h \in DOMAIN rec |->
            IF ~includes(rec[h], task.id) THEN 0
            ELSE IF task.targets.mode = "count" THEN CreditUnit
            ELSE CreditUnit \div Len(rec[h])])])

\* periodTarget = value / frequency * days.length; completionRate is the
\* rounded quotient capped at 100, or 100 / 0 without a period target
summaryRow(task, recs, days) ==
    LET actualTotal == actualTotalOf(task, recs, days)
        hasTarget == task.targets.value > 0
        den == task.targets.value * Cardinality(days) * CreditUnit
    IN [id |-> task.id, actualTotal |-> actualTotal,
        hasTarget |-> hasTarget,
        completionRate |->
            IF hasTarget
            THEN LET r == RoundDiv(actualTotal * task.targets.frequency * 100,
                                   den)
                 IN IF r < 100 THEN r ELSE 100
            ELSE IF actualTotal > 0 THEN 100 ELSE 0]

\* stable sort, larger completionRate first
RECURSIVE sortByCompletion(_)
sortByCompletion(rows) ==
    IF rows = <<>> THEN <<>>
    ELSE LET rest == sortByCompletion(Tail(rows))
             r == Head(rows)
             k == Cardinality({i \in 1..Len(rest) :
                                 rest[i].completionRate > r.completionRate})
         IN SubSeq(rest, 1, k) \o <<r>> \o SubSeq(rest, k + 1, Len(rest))

taskSummaries ==
    IF analysisMode = "none" THEN <<>>
    ELSE sortByCompletion(SelectSeq(
            [i \in 1..Len(tasks) |->
                summaryRow(tasks[i], records,
                           windowDays(analysisMode, currentDate))],
            LAMBDA r : r.actualTotal > 0 \/ r.hasTarget))

\* ----------------------------------------------------- view click handlers
toggleList_evictEarly(current, id) ==
    IF includes(current, id) THEN filterOut(current, id)
    ELSE IF Len(current) < SlotCapacity - 1 THEN Append(current, id)
         ELSE Append(slice1(current), id)

\* ScheduleView / RecordView: toggle with FIFO eviction
toggleList(current, id) ==
    IF includes(current, id) THEN filterOut(current, id)
    ELSE IF Len(current) < SlotCapacity THEN Append(current, id)
         ELSE Append(slice1(current), id)

\* TrackerView: toggle, keeping the last four
toggleListTracker(current, id) ==
    IF includes(current, id) THEN filterOut(current, id)
    ELSE sliceLast(Append(current, id), SlotCapacity)

registryIds == {tasks[i].id : i \in 1..Len(tasks)}

\* history of the latest handler: what it read and wrote
\* an imported file: kind is what JSON.parse makes of its text ("text" does
\* not parse), has the top-level keys of a parsed object, tasksIsList
\* whether its tasks value is an array
FieldNames == {"tasks", "schedule", "recurringSchedule", "records", "reviews"}
NoDoc == [kind |-> "none", has |-> {}, tasksIsList |-> FALSE,
          tasks |-> <<>>, schedule |-> EmptyObj,
          recurringSchedule |-> EmptyObj, records |-> EmptyObj,
          reviews |-> EmptyObj]

NoOp == [op |-> "none", id |-> NULL, hour |-> 0, date |-> 0,
         before |-> <<>>, stored |-> <<>>, after |-> <<>>,
         undo |-> FALSE, orig |-> <<>>, origStored |-> <<>>,
         alert |-> FALSE, doc |-> NoDoc, accepted |-> FALSE,
         prev |-> NoDoc, task |-> NoTask, calls |-> <<>>,
         text |-> <<>>]

Did(name, id, date, before) ==
    [NoOp EXCEPT !.op = name, !.id = id, !.date = date, !.before = before]

\* a toggle of id in the cell (name, date, hour): before is the list the
\* handler read, stored the list the store held, after the list written;
\* undo marks the removal of an id the previous handler had just inserted
\* into the same cell
Toggled(name, id, hour, date, before, stored, after) ==
    LET undo == /\ last.op = name /\ last.id = id
                /\ last.hour = hour /\ last.date = date
                /\ ~includes(last.before, id)
                /\ includes(before, id)
    IN [op |-> name, id |-> id, hour |-> hour, date |-> date,
        before |-> before, stored |-> stored, after |-> after,
        undo |-> undo,
        orig |-> IF undo THEN last.before ELSE <<>>,
        origStored |-> IF undo THEN last.stored ELSE <<>>,
        alert |-> FALSE, doc |-> NoDoc, accepted |-> FALSE,
        prev |-> NoDoc, task |-> NoTask, calls |-> <<>>,
         text |-> <<>>]

Tabs == {"schedule", "record", "stats", "settings", "tracker"}
NoSlot == [hour |-> 0, side |-> "none"]

\* number of (date, hour) cells of a dated store whose list holds the id
slotsHolding(store, id) ==
    Cardinality({c \in (DOMAIN store) \X ModelHours :
        /\ c[2] \in DOMAIN store[c[1]].hours
        /\ includes(store[c[1]].hours[c[2]], id)})

\* switching tab unmounts the view and drops its local state
setActiveTab(tab) ==
    /\ tab # activeTab
    /\ activeTab' = tab
    /\ selectedTaskId' = NULL
    /\ isRepeatMode' = FALSE
    /\ activeSlot' = NoSlot
    /\ isRecurringMode' = FALSE
    /\ analysisMode' = "none"
    /\ last' = NoOp
    /\ UNCHANGED <<appState, currentDate, idSeq, ops>>
    /\ UNCHANGED restState

setCurrentDate(d) ==
    /\ d # currentDate
    /\ currentDate' = d
    /\ last' = NoOp
    /\ UNCHANGED <<appState, activeTab, selectedTaskId, isRepeatMode,
                   activeSlot, isRecurringMode, analysisMode, idSeq, ops>>
    /\ UNCHANGED restState

handleTaskClick(id) ==
    /\ activeTab \in {"schedule", "record"}
    /\ id \in registryIds
    /\ selectedTaskId' = IF selectedTaskId = id THEN NULL ELSE id
    /\ last' = NoOp
    /\ UNCHANGED <<appState, currentDate, activeTab, isRepeatMode,
                   activeSlot, isRecurringMode, analysisMode, idSeq, ops>>
    /\ UNCHANGED restState

setIsRepeatMode ==
    /\ activeTab = "schedule"
    /\ isRepeatMode' = ~isRepeatMode
    /\ last' = NoOp
    /\ UNCHANGED <<appState, currentDate, activeTab, selectedTaskId,
                   activeSlot, isRecurringMode, analysisMode, idSeq, ops>>
    /\ UNCHANGED restState

ScheduleHourClick(hour) ==
    /\ activeTab = "schedule"
    /\ selectedTaskId # NULL
    /\ ops > 0
    /\ ops' = ops - 1
    /\ IF isRepeatMode
       THEN LET current == Lookup(recurringSchedule, hour, <<>>)
                next == toggleList(current, selectedTaskId)
            IN /\ recurringSchedule' =
                      updateRecurringSchedule(recurringSchedule, hour, next)
               /\ last' = Toggled("recurring", selectedTaskId, hour, 0,
                                  current, current, next)
               /\ UNCHANGED schedule
       ELSE LET current == Lookup(currentSchedule.hours, hour, <<>>)
                next == toggleList(current, selectedTaskId)
            IN /\ schedule' =
                      updateScheduleHour(schedule, currentDate, hour, next)
               /\ last' = Toggled("schedule", selectedTaskId, hour,
                                  currentDate, current,
                                  Lookup(hoursOf(schedule, currentDate),
                                         hour, <<>>), next)
               /\ UNCHANGED recurringSchedule
    /\ UNCHANGED <<tasks, records, reviews, viewState, idSeq>>
    /\ UNCHANGED restState

RecordHourClick(hour) ==
    /\ activeTab = "record"
    /\ selectedTaskId # NULL
    /\ ops > 0
    /\ ops' = ops - 1
    /\ LET current == Lookup(currentRecord.hours, hour, <<>>)
           next == toggleList(current, selectedTaskId)
       IN /\ records' = updateRecordHour(records, currentRecord,
                                          currentDate, hour, next)
          /\ last' = Toggled("record", selectedTaskId, hour, currentDate,
                             current, current, next)
    /\ UNCHANGED <<tasks, schedule, recurringSchedule, reviews, viewState,
                   idSeq>>
    /\ UNCHANGED restState

\* TrackerView: clicking a plan / actual cell opens or closes its task pool
trackerHourClick(hour, side) ==
    /\ activeTab = "tracker"
    /\ activeSlot' = IF activeSlot = [hour |-> hour, side |-> side]
                     THEN NoSlot ELSE [hour |-> hour, side |-> side]
    /\ last' = NoOp
    /\ UNCHANGED <<appState, currentDate, activeTab, selectedTaskId,
                   isRepeatMode, isRecurringMode, analysisMode, idSeq, ops>>
    /\ UNCHANGED restState

setIsRecurringMode ==
    /\ activeTab = "tracker"
    /\ activeSlot.side = "plan"
    /\ isRecurringMode' = ~isRecurringMode
    /\ last' = NoOp
    /\ UNCHANGED <<appState, currentDate, activeTab, selectedTaskId,
                   isRepeatMode, activeSlot, analysisMode, idSeq, ops>>
    /\ UNCHANGED restState

handleToggleTaskInSlot(taskId) ==
    /\ activeTab = "tracker"
    /\ activeSlot # NoSlot
    /\ taskId \in registryIds
    /\ ops > 0
    /\ ops' = ops - 1
    /\ LET hour == activeSlot.hour IN
       IF activeSlot.side = "actual"
       THEN LET current == Lookup(currentRecord.hours, hour, <<>>)
                next == toggleListTracker(current, taskId)
            IN /\ records' =
                      updateRecordHour(records, currentRecord,
                                       currentDate, hour, next)
               /\ last' = Toggled("record", taskId, hour, currentDate,
                                  current, current, next)
               /\ UNCHANGED <<schedule, recurringSchedule>>
       ELSE IF isRecurringMode
       THEN LET current == Lookup(recurringSchedule, hour, <<>>)
                next == toggleListTracker(current, taskId)
            IN /\ recurringSchedule' =
                      updateRecurringSchedule(recurringSchedule, hour, next)
               /\ last' = Toggled("recurring", taskId, hour, 0,
                                  current, current, next)
               /\ UNCHANGED <<schedule, records>>
       ELSE LET current == Lookup(currentSchedule.hours, hour, <<>>)
                next == toggleListTracker(current, taskId)
            IN /\ schedule' =
                      updateScheduleHour(schedule, currentDate, hour, next)
               /\ last' = Toggled("schedule", taskId, hour, currentDate,
                                  current,
                                  Lookup(hoursOf(schedule, currentDate),
                                         hour, <<>>), next)
               /\ UNCHANGED <<recurringSchedule, records>>
    /\ UNCHANGED <<tasks, reviews, viewState, idSeq>>
    /\ UNCHANGED restState

\* StatsView: none / weekly / monthly analysis
setAnalysisMode(mode) ==
    /\ activeTab = "stats"
    /\ mode # analysisMode
    /\ analysisMode' = mode
    /\ last' = NoOp
    /\ UNCHANGED <<appState, currentDate, activeTab, selectedTaskId,
                   isRepeatMode, activeSlot, isRecurringMode, idSeq, ops>>
    /\ UNCHANGED restState

\* the views drop a selection whose task left the registry
\* ------------------------------------------------ JSON text of a state
\* property names of the hours: String(hour), read back with parseInt
HourKeys == <<"0", "1", "2", "3", "4", "5", "6", "7", "8", "9", "10", "11",
              "12", "13", "14", "15", "16", "17", "18", "19", "20", "21",
              "22", "23">>
hourKey(h) == HourKeys[h + 1]
parseInt(k) == CHOOSE h \in 0..(Len(HourKeys) - 1) : HourKeys[h + 1] = k

minKey(keys) == CHOOSE k \in keys : \A j \in keys : k <= j

\* the "key": value pairs of an object in the order JSON.stringify writes
\* them
RECURSIVE objectEntries(_, _)
objectEntries(obj, keys) ==
    IF keys = {} THEN <<>>
    ELSE <<<<minKey(keys), obj[minKey(keys)]>>>>
         \o objectEntries(obj, keys \ {minKey(keys)})

\* the object JSON.parse builds from pairs: a later pair wins
fromEntries(pairs) ==
    [k \in {pairs[i][1] : i \in 1..Len(pairs)} |->
        pairs[CHOOSE i \in 1..Len(pairs) :
                 /\ pairs[i][1] = k
                 /\ \A j \in (i + 1)..Len(pairs) : pairs[j][1] # k][2]]

\* the pairs of an hours object, the hour written as its property name
hourPairs(hours, kept) ==
    LET pairs == objectEntries(hours, kept)
    IN [i \in 1..Len(pairs) |-> <<hourKey(pairs[i][1]), pairs[i][2]>>]

hoursText_skipEmpty(hours) ==
    hourPairs(hours, {h \in DOMAIN hours : hours[h] # <<>>})

hoursText(hours) == hourPairs(hours, DOMAIN hours)

hoursFromText(pairs) ==
    LET obj == fromEntries(pairs)
    IN [h \in {parseInt(k) : k \in DOMAIN obj} |-> obj[hourKey(h)]]

daysText(store) ==
    objectEntries([d \in DOMAIN store |->
                      [hours |-> hoursText(store[d].hours)]],
                  DOMAIN store)

daysFromText(pairs) ==
    LET obj == fromEntries(pairs)
    IN [d \in DOMAIN obj |-> [hours |-> hoursFromText(obj[d].hours)]]

\* a key whose value is undefined is not written
taskText(t) ==
    [id |-> t.id, name |-> t.name,
     targets |-> IF t.targets = NoTargets THEN <<>> ELSE <<t.targets>>]

taskFromText(o) ==
    Task(o.id, o.name, IF o.targets = <<>> THEN NoTargets ELSE o.targets[1])

\* JSON.stringify(state)
jsonStringify(snap) ==
    [keys |-> snap.has,
     tasks |-> [i \in 1..Len(snap.tasks) |-> taskText(snap.tasks[i])],
     schedule |-> daysText(snap.schedule),
     recurringSchedule |-> hoursText(snap.recurringSchedule),
     records |-> daysText(snap.records),
     reviews |-> objectEntries(snap.reviews, DOMAIN snap.reviews)]

\* JSON.parse(text) of a text that JSON.stringify wrote
jsonParse(text) ==
    [kind |-> "object", has |-> text.keys,
     tasksIsList |-> "tasks" \in text.keys,
     tasks |-> [i \in 1..Len(text.tasks) |-> taskFromText(text.tasks[i])],
     schedule |-> daysFromText(text.schedule),
     recurringSchedule |-> hoursFromText(text.recurringSchedule),
     records |-> daysFromText(text.records),
     reviews |-> fromEntries(text.reviews)]

\* the five fields of the state as one record
stateSnapshot ==
    [NoDoc EXCEPT !.kind = "object", !.has = FieldNames \ missingFields,
                  !.tasksIsList = TRUE, !.tasks = tasks,
                  !.schedule = schedule,
                  !.recurringSchedule = recurringSchedule,
                  !.records = records, !.reviews = reviews]

resetSelection_stale(taskList, selected) == selected

\* the effect on [tasks, selectedTaskId]: a selection that names no task of
\* the registry is cleared
resetSelection(taskList, selected) ==
    IF selected # NULL
       /\ ~\E i \in 1..Len(taskList) : taskList[i].id = selected
    THEN NULL
    ELSE selected

\* JSON.parse(JSON.stringify(prev))
deepCopy == jsonParse(jsonStringify(stateSnapshot))

handleDeleteTask(taskId) ==
    /\ activeTab \in {"schedule", "record", "settings", "tracker"}
    /\ taskId # NULL
    /\ ops > 0
    /\ ops' = ops - 1
    /\ LET newState == deepCopy
       IN /\ tasks' = removeTask(newState.tasks, taskId)
          /\ schedule' = cascadeDays(newState.schedule, taskId)
          /\ recurringSchedule' =
                cascadeRecurring(newState.recurringSchedule, taskId)
          /\ records' = cascadeDays(newState.records, taskId)
          /\ reviews' = newState.reviews
    /\ selectedTaskId' = resetSelection(tasks', selectedTaskId)
    /\ last' = Did("deleteTask", taskId, 0,
                    <<slotsHolding(schedule, taskId),
                      Cardinality({h \in DOMAIN recurringSchedule :
                          includes(recurringSchedule[h], taskId)}),
                      slotsHolding(records, taskId)>>)
    /\ UNCHANGED <<currentDate, activeTab, isRepeatMode,
                   activeSlot, isRecurringMode, analysisMode, idSeq>>
    /\ UNCHANGED restState

handleUpdateTask(updatedTask) ==
    /\ activeTab \in {"schedule", "record", "settings", "tracker"}
    /\ ops > 0
    /\ ops' = ops - 1
    /\ tasks' = replaceTask(tasks, updatedTask)
    /\ last' = [Did("updateTask", updatedTask.id, 0, <<>>) EXCEPT
                   !.task = updatedTask]
    /\ UNCHANGED <<schedule, recurringSchedule, records, reviews,
                   viewState, idSeq>>
    /\ UNCHANGED restState

\* generateId(): an id never handed out before (idSeq is the last one
\* handed out)
generateId == idSeq + 1

appendTask_reuseLastId(list, newTaskPart, id) ==
    Append(list, Task(IF list = <<>> THEN id ELSE list[Len(list)].id,
                      newTaskPart.name, newTaskPart.targets))

\* [...prev.tasks, { ...newTaskPart, id }]
appendTask(list, newTaskPart, id) ==
    Append(list, Task(id, newTaskPart.name, newTaskPart.targets))

handleAddTask(newTaskPart) ==
    /\ activeTab = "settings"
    /\ idSeq < NumTasks
    /\ ops > 0
    /\ ops' = ops - 1
    /\ idSeq' = generateId
    /\ tasks' = appendTask(tasks, newTaskPart, generateId)
    /\ last' = [Did("addTask", generateId, 0, <<>>) EXCEPT
                   !.task = Task(NULL, newTaskPart.name, newTaskPart.targets)]
    /\ UNCHANGED <<schedule, recurringSchedule, records, reviews, viewState>>
    /\ UNCHANGED restState

updateReview(text) ==
    /\ ops > 0
    /\ ops' = ops - 1
    /\ reviews' = Put(reviews, currentDate, text)
    /\ last' = Did("review", NULL, currentDate, <<>>)
    /\ UNCHANGED <<tasks, schedule, recurringSchedule, records, viewState,
                   idSeq>>
    /\ UNCHANGED restState

\* the App tree renders: reading state.records[dateKey] and
\* state.reviews[dateKey] does not throw
Rendered == missingFields \cap {"records", "reviews"} = {}

\* JSON.parse(content) throws, or reading parsed.tasks of null throws
parseThrows(doc) == doc.kind \in {"text", "null"}

passesValidation_allFields(doc) ==
    /\ doc.kind = "object"
    /\ doc.tasksIsList
    /\ doc.has = FieldNames

\* Array.isArray(parsed.tasks) && parsed.schedule
passesValidation(doc) ==
    /\ doc.kind = "object"
    /\ "tasks" \in doc.has /\ doc.tasksIsList
    /\ "schedule" \in doc.has

maxId(taskList) ==
    IF taskList = <<>> THEN 0
    ELSE CHOOSE m \in {taskList[i].id : i \in 1..Len(taskList)} :
            \A i \in 1..Len(taskList) : taskList[i].id <= m

\* whether the handler shows alert('导入失败')
importAlerts(doc) == parseThrows(doc)

\* reader.onload of handleImportData; confirmed is the user's answer to
\* window.confirm
handleImportData(doc, confirmed) ==
    /\ Rendered
    /\ activeTab = "settings"
    /\ ops > 0
    /\ ops' = ops - 1
    /\ IF ~parseThrows(doc) /\ passesValidation(doc) /\ confirmed
       THEN /\ tasks' = doc.tasks
            /\ schedule' = doc.schedule
            /\ recurringSchedule' = doc.recurringSchedule
            /\ records' = doc.records
            /\ reviews' = doc.reviews
            /\ missingFields' = FieldNames \ doc.has
            /\ idSeq' = IF maxId(doc.tasks) > idSeq THEN maxId(doc.tasks)
                        ELSE idSeq
       ELSE UNCHANGED <<appState, missingFields, idSeq>>
    /\ last' = [Did("import", NULL, 0, <<>>) EXCEPT
                   !.alert = importAlerts(doc),
                   !.doc = doc,
                   !.accepted = confirmed,
                   !.prev = stateSnapshot]
    /\ UNCHANGED <<viewState, queue, probe, storage, boot>>

\* the backup file is JSON.stringify(state, null, 2)
handleExportData ==
    /\ Rendered
    /\ activeTab = "settings"
    /\ last.op # "export"
    /\ last' = [Did("export", NULL, 0, <<>>) EXCEPT
                   !.text = <<jsonStringify(stateSnapshot)>>,
                   !.prev = stateSnapshot]
    /\ UNCHANGED <<appState, viewState, idSeq, ops, missingFields, queue,
                   probe, storage, boot>>

\* the file chosen for import is the backup just downloaded
importExportedFile(confirmed) ==
    /\ last.op = "export"
    /\ handleImportData(jsonParse(last.text[1]), confirmed)

\* setState(updater) calls that React has queued and not yet applied: each
\* entry keeps the arguments and what the handler's closure captured
\* (dateKey, currentRecord)
callUpdateRecordHour(hour, taskIds) ==
    /\ Rendered
    /\ Len(queue) < MaxQueue
    /\ queue' = Append(queue, [op |-> "record", date |-> currentDate,
                               hour |-> hour, taskIds |-> taskIds,
                               shown |-> currentRecord])
    /\ last' = NoOp
    /\ UNCHANGED <<appState, viewState, idSeq, ops, missingFields, probe,
                   storage, boot>>

callUpdateScheduleHour(hour, taskIds) ==
    /\ Rendered
    /\ Len(queue) < MaxQueue
    /\ queue' = Append(queue, [op |-> "schedule", date |-> currentDate,
                               hour |-> hour, taskIds |-> taskIds,
                               shown |-> EmptyDay])
    /\ last' = NoOp
    /\ UNCHANGED <<appState, viewState, idSeq, ops, missingFields, probe,
                   storage, boot>>

\* the queued updaters applied in order, each to the result of the one
\* before
RECURSIVE applyUpdaters(_, _)
applyUpdaters(st, q) ==
    IF q = <<>> THEN st
    ELSE LET u == Head(q) IN
         applyUpdaters(
            IF u.op = "record"
            THEN [st EXCEPT !.records =
                     updateRecordHour(st.records, u.shown, u.date, u.hour,
                                      u.taskIds)]
            ELSE [st EXCEPT !.schedule =
                     updateScheduleHour(st.schedule, u.date, u.hour,
                                        u.taskIds)],
            Tail(q))

\* React applies the queue and renders again
flushUpdates ==
    /\ queue # <<>>
    /\ ops > 0
    /\ ops' = ops - 1
    /\ LET st == applyUpdaters([schedule |-> schedule, records |-> records],
                               queue)
       IN /\ schedule' = st.schedule
          /\ records' = st.records
    /\ queue' = <<>>
    /\ last' = [Did("flush", NULL, currentDate, <<>>) EXCEPT !.calls = queue]
    /\ UNCHANGED <<tasks, recurringSchedule, reviews, viewState, idSeq,
                   missingFields, probe, storage, boot>>

SeedTasks == NumTasks - 1

\* ------------------------------------------------------------ mount of App
MaxRemounts == 1

NoStorage == [present |-> FALSE, text |-> <<>>]
NoBoot == [phase |-> "off", pending |-> <<>>, before |-> NoStorage,
           remounts |-> 0]

\* the state useState starts with
placeholderState ==
    [NoDoc EXCEPT !.kind = "object", !.has = FieldNames, !.tasksIsList = TRUE]

\* the default seed: some tasks and empty schedules
defaultSeed ==
    [placeholderState EXCEPT
        !.tasks = [i \in 1..SeedTasks |-> Task(i, "n1", NoTargets)]]

\* loadState(): the stored snapshot, or the default seed when there is none
loadState == IF storage.present THEN jsonParse(storage.text[1]) ELSE defaultSeed

\* saveState(state): the serialized snapshot replaces what storage held
saveState(snap) == [present |-> TRUE, text |-> <<jsonStringify(snap)>>]

\* the mount effect: setState(loadState()) hands the loaded snapshot to React
loadEffect ==
    /\ boot.phase = "mounted"
    /\ boot' = [boot EXCEPT !.phase = "loaded",
                            !.pending = Append(@, loadState)]
    /\ last' = NoOp
    /\ UNCHANGED <<appState, viewState, idSeq, ops, missingFields, queue,
                   probe, storage>>

\* the effect on [state]: saveState(state) with the state of the render that
\* created the effect; it runs after the mount and after every render in
\* which state changed
persistEffect ==
    /\ boot.phase \in {"loaded", "rendered"}
    /\ storage' = saveState(stateSnapshot)
    /\ boot' = [boot EXCEPT
                   !.phase = IF @ = "loaded" THEN "effects" ELSE "settled"]
    /\ last' = NoOp
    /\ UNCHANGED <<appState, viewState, idSeq, ops, missingFields, queue,
                   probe>>

\* React destroys the effects of the mounted tree and runs them again before
\* it renders the queued updates (StrictMode)
remount ==
    /\ boot.phase = "effects"
    /\ boot.remounts < MaxRemounts
    /\ boot' = [boot EXCEPT !.phase = "mounted", !.remounts = @ + 1]
    /\ last' = NoOp
    /\ UNCHANGED <<appState, viewState, idSeq, ops, missingFields, queue,
                   probe, storage>>

\* the render after the effects: the queued setState calls are applied in
\* order, the last one decides the state
renderLoaded ==
    /\ boot.phase = "effects"
    /\ LET loaded == boot.pending[Len(boot.pending)]
       IN /\ tasks' = loaded.tasks
          /\ schedule' = loaded.schedule
          /\ recurringSchedule' = loaded.recurringSchedule
          /\ records' = loaded.records
          /\ reviews' = loaded.reviews
          /\ idSeq' = maxId(loaded.tasks)
    /\ boot' = [boot EXCEPT !.phase = "rendered", !.pending = <<>>]
    /\ last' = NoOp
    /\ UNCHANGED <<viewState, ops, missingFields, queue, probe, storage>>


InitView ==
    /\ currentDate = 1
    /\ activeTab = "record"
    /\ selectedTaskId = NULL
    /\ isRepeatMode = FALSE
    /\ activeSlot = NoSlot
    /\ isRecurringMode = FALSE
    /\ analysisMode = "none"
    /\ last = NoOp

InitEmpty(n) ==
    /\ tasks = [i \in 1..n |-> Task(i, "n1", NoTargets)]
    /\ idSeq = n
    /\ schedule = EmptyObj
    /\ recurringSchedule = EmptyObj
    /\ records = EmptyObj
    /\ reviews = EmptyObj

NoProbe == [planned |-> 0, credit |-> 0, done |-> FALSE,
            percentage |-> 0, statusColor |-> "none"]

Init ==
    /\ InitEmpty(SeedTasks)
    /\ InitView
    /\ ops = MaxOps
    /\ missingFields = {}
    /\ queue = <<>>
    /\ probe = NoProbe
    /\ storage = NoStorage
    /\ boot = NoBoot

Next ==
    \/ \E tab \in Tabs : setActiveTab(tab)
    \/ \E d \in Dates : setCurrentDate(d)
    \/ \E id \in TaskIds : handleTaskClick(id)
    \/ setIsRepeatMode
    \/ \E h \in ModelHours : ScheduleHourClick(h)
    \/ \E h \in ModelHours : RecordHourClick(h)
    \/ \E h \in ModelHours, side \in {"plan", "actual"} :
           trackerHourClick(h, side)
    \/ setIsRecurringMode
    \/ \E id \in TaskIds : handleToggleTaskInSlot(id)
    \/ \E id \in TaskIds : handleDeleteTask(id)
    \/ \E id \in TaskIds, n \in Names :
           handleUpdateTask(Task(id, n, NoTargets))
    \/ \E n \in Names :
           handleAddTask([name |-> n, targets |-> NoTargets])
    \/ \E text \in {"r1"} : updateReview(text)
    \/ \E mode \in {"none", "weekly", "monthly"} : setAnalysisMode(mode)

Spec == Init /\ [][Next]_vars

\* snapshots a previous session left in storage
Day(h1, l1) == [hours |-> Put(EmptyObj, h1, l1)]
Day2(h1, l1, h2, l2) == [hours |-> Put(Put(EmptyObj, h1, l1), h2, l2)]
OneDate(d, day) == Put(EmptyObj, d, day)
TwoDates(d1, day1, d2, day2) == Put(Put(EmptyObj, d1, day1), d2, day2)

FullSlots ==
    [schedule |-> OneDate(1, Day(9, <<1, 2, 3, 4>>)),
     recurringSchedule |-> Put(EmptyObj, 10, <<2, 3, 4, 1>>),
     records |-> OneDate(1, Day2(9, <<4, 3, 2, 1>>, 10, <<3>>))]

Overlapping ==
    [schedule |-> TwoDates(1, Day2(9, <<2, 1>>, 10, <<>>), 2, Day(10, <<3, 2>>)),
     recurringSchedule |-> Put(EmptyObj, 9, <<1, 3>>),
     records |-> OneDate(2, Day2(9, <<3, 2>>, 10, <<3, 1, 2>>))]

Spread ==
    [schedule |-> OneDate(2, Day(10, <<4, 2, 5>>)),
     recurringSchedule |-> Put(EmptyObj, 9, <<5, 2, 3>>),
     records |-> TwoDates(1, Day(9, <<1, 2, 5>>), 2, Day2(9, <<2>>, 10, <<5, 1, 2>>))]

SharedHour ==
    [schedule |-> OneDate(1, Day(9, <<1>>)),
     recurringSchedule |-> EmptyObj,
     records |-> OneDate(1, Day(9, <<1, 2>>))]

TwoPlannedDays ==
    [schedule |-> TwoDates(1, Day(9, <<1>>), 2, Day(9, <<1, 2>>)),
     recurringSchedule |-> EmptyObj,
     records |-> TwoDates(1, Day(9, <<1>>), 2, Day(9, <<1>>))]

Snapshots == {FullSlots, Overlapping, Spread}
StatsSnapshots == {SharedHour, TwoPlannedDays, Overlapping, Spread}

InitFrom(S, n, budget) ==
    /\ tasks = [i \in 1..n |-> Task(i, "n1", NoTargets)]
    /\ idSeq = n
    /\ \E s \in S :
          /\ schedule = s.schedule
          /\ recurringSchedule = s.recurringSchedule
          /\ records = s.records
    /\ reviews = EmptyObj
    /\ InitView
    /\ ops = budget
    /\ missingFields = {}
    /\ queue = <<>>
    /\ probe = NoProbe
    /\ storage = NoStorage
    /\ boot = NoBoot

InitLoaded == InitFrom(Snapshots, LoadedTasks, LoadedOps)

NextLoaded ==
    \/ \E tab \in {"schedule", "record"} : setActiveTab(tab)
    \/ \E d \in Dates : setCurrentDate(d)
    \/ \E id \in 1..LoadedTasks : handleTaskClick(id)
    \/ setIsRepeatMode
    \/ \E h \in ModelHours : ScheduleHourClick(h)
    \/ \E h \in ModelHours : RecordHourClick(h)
    \/ \E id \in 1..LoadedTasks : handleDeleteTask(id)

SpecLoaded == InitLoaded /\ [][NextLoaded]_vars

\* the statistics tab over stored snapshots and fresh record toggles
InitStats == InitFrom(StatsSnapshots, LoadedTasks, StatsOps)

NextStats ==
    \/ \E tab \in {"record", "stats"} : setActiveTab(tab)
    \/ \E d \in Dates : setCurrentDate(d)
    \/ \E id \in 1..LoadedTasks : handleTaskClick(id)
    \/ \E h \in ModelHours : RecordHourClick(h)
    \/ \E mode \in {"none", "weekly", "monthly"} : setAnalysisMode(mode)

SpecStats == InitStats /\ [][NextStats]_vars

\* the window rollup over tasks that carry targets
RollupOps == 2

RollupTargets ==
    {[i \in 1..LoadedTasks |-> NoTargets],
     [i \in 1..LoadedTasks |->
         [mode |-> "count", value |-> 1, frequency |-> 3]],
     [i \in 1..LoadedTasks |->
         [mode |-> IF i % 2 = 0 THEN "duration" ELSE "count",
          value |-> i % 3, frequency |-> 1]]}

InitRollup ==
    /\ \E t \in RollupTargets :
          tasks = [i \in 1..LoadedTasks |-> Task(i, "n1", t[i])]
    /\ idSeq = LoadedTasks
    /\ \E s \in StatsSnapshots :
          /\ schedule = s.schedule
          /\ recurringSchedule = s.recurringSchedule
          /\ records = s.records
    /\ reviews = EmptyObj
    /\ InitView
    /\ ops = RollupOps
    /\ missingFields = {}
    /\ queue = <<>>
    /\ probe = NoProbe
    /\ storage = NoStorage
    /\ boot = NoBoot

NextRollup ==
    \/ \E tab \in {"record", "stats"} : setActiveTab(tab)
    \/ \E d \in Dates : setCurrentDate(d)
    \/ \E id \in 1..LoadedTasks : handleTaskClick(id)
    \/ \E h \in ModelHours : RecordHourClick(h)
    \/ \E mode \in {"weekly", "monthly"} : setAnalysisMode(mode)

SpecRollup == InitRollup /\ [][NextRollup]_vars

\* ScheduleView alone on one hour cell, with a registry of CapTasks tasks
InitCap ==
    /\ InitEmpty(CapTasks)
    /\ InitView
    /\ ops = CapOps
    /\ missingFields = {}
    /\ queue = <<>>
    /\ probe = NoProbe
    /\ storage = NoStorage
    /\ boot = NoBoot

NextCap ==
    \/ setActiveTab("schedule")
    \/ \E id \in 1..CapTasks : handleTaskClick(id)
    \/ setIsRepeatMode
    \/ ScheduleHourClick(9)

SpecCap == InitCap /\ [][NextCap]_vars

\* the task pool and the window summaries over tasks stored with targets
TargetChoices ==
    {NoTargets} \cup [mode : {"count", "duration"}, value : 0..MaxValue,
                      frequency : 1..MaxFrequency]

InitTargets ==
    /\ \E t \in [1..TargetTasks -> TargetChoices] :
          tasks = [i \in 1..TargetTasks |-> Task(i, "n1", t[i])]
    /\ idSeq = TargetTasks
    /\ schedule = EmptyObj
    /\ recurringSchedule = EmptyObj
    /\ records = EmptyObj
    /\ reviews = EmptyObj
    /\ InitView
    /\ ops = TargetOps
    /\ missingFields = {}
    /\ queue = <<>>
    /\ probe = NoProbe
    /\ storage = NoStorage
    /\ boot = NoBoot

NextTargets ==
    \/ \E tab \in {"tracker", "stats"} : setActiveTab(tab)
    \/ \E h \in ModelHours : trackerHourClick(h, "actual")
    \/ \E id \in 1..TargetTasks : handleToggleTaskInSlot(id)
    \/ \E mode \in {"none", "weekly", "monthly"} : setAnalysisMode(mode)

SpecTargets == InitTargets /\ [][NextTargets]_vars

\* backup files and damaged files offered to the import
ObjectDoc(has, isList, b) ==
    [kind |-> "object", has |-> has,
     tasksIsList |-> isList /\ "tasks" \in has,
     tasks |-> IF isList /\ "tasks" \in has THEN b.tasks ELSE <<>>,
     schedule |-> IF "schedule" \in has THEN b.schedule ELSE EmptyObj,
     recurringSchedule |-> IF "recurringSchedule" \in has
                           THEN b.recurringSchedule ELSE EmptyObj,
     records |-> IF "records" \in has THEN b.records ELSE EmptyObj,
     reviews |-> IF "reviews" \in has THEN b.reviews ELSE EmptyObj]

Backups ==
    {[tasks |-> [i \in 1..3 |-> Task(i, "n2", NoTargets)],
      schedule |-> Overlapping.schedule,
      recurringSchedule |-> Overlapping.recurringSchedule,
      records |-> Overlapping.records,
      reviews |-> Put(EmptyObj, 2, "r2")],
     [tasks |-> <<>>, schedule |-> EmptyObj, recurringSchedule |-> EmptyObj,
      records |-> EmptyObj, reviews |-> EmptyObj]}

KeySets ==
    {FieldNames, FieldNames \ {"tasks"}, FieldNames \ {"schedule"},
     FieldNames \ {"reviews"}, {"tasks", "schedule"}, {}}

Documents ==
    {[NoDoc EXCEPT !.kind = k] : k \in {"text", "null", "primitive"}}
    \cup {ObjectDoc(has, isList, b) :
             has \in KeySets, isList \in BOOLEAN, b \in Backups}

InitImport == InitFrom({FullSlots, Spread}, LoadedTasks, ImportOps)

NextImport ==
    \/ \E tab \in {"record", "settings"} : Rendered /\ setActiveTab(tab)
    \/ \E id \in 1..LoadedTasks : Rendered /\ handleTaskClick(id)
    \/ \E h \in ModelHours : Rendered /\ RecordHourClick(h)
    \/ \E text \in {"r1"} : Rendered /\ updateReview(text)
    \/ \E doc \in Documents, confirmed \in BOOLEAN :
           handleImportData(doc, confirmed)

SpecImport == InitImport /\ [][NextImport]_vars

\* exporting a backup and importing it again
BackupOps == 3

InitBackup ==
    /\ tasks = <<Task(1, "n1", NoTargets),
                 Task(2, "n2", [mode |-> "duration", value |-> 2,
                                frequency |-> 1]),
                 Task(3, "n1", [mode |-> "count", value |-> 1,
                                frequency |-> 2])>>
    /\ idSeq = 3
    /\ \E s \in {Overlapping, TwoPlannedDays} :
          /\ schedule = s.schedule
          /\ recurringSchedule = s.recurringSchedule
          /\ records = s.records
    /\ reviews \in {EmptyObj, Put(EmptyObj, 2, "r2")}
    /\ InitView
    /\ ops = BackupOps
    /\ missingFields = {}
    /\ queue = <<>>
    /\ probe = NoProbe
    /\ storage = NoStorage
    /\ boot = NoBoot

NextBackup ==
    \/ \E tab \in {"record", "settings"} : setActiveTab(tab)
    \/ \E id \in 1..3 : handleTaskClick(id)
    \/ \E h \in ModelHours : RecordHourClick(h)
    \/ \E text \in {"r1"} : updateReview(text)
    \/ \E id \in 1..3 : handleDeleteTask(id)
    \/ handleExportData
    \/ \E confirmed \in BOOLEAN : importExportedFile(confirmed)

SpecBackup == InitBackup /\ [][NextBackup]_vars

\* the mount of App over what a previous session left in storage
StoredTasks ==
    {[i \in 1..LoadedTasks |-> Task(i, "n1", NoTargets)],
     [i \in 1..LoadedTasks |->
         Task(i, "n2", [mode |-> "count", value |-> 1, frequency |-> 1])]}

StoredSnapshots ==
    {[placeholderState EXCEPT
         !.tasks = t, !.schedule = s.schedule,
         !.recurringSchedule = s.recurringSchedule,
         !.records = s.records, !.reviews = r] :
       t \in StoredTasks, s \in Snapshots \cup StatsSnapshots,
       r \in {EmptyObj, Put(EmptyObj, 2, "r2")}}

InitStartup ==
    /\ InitEmpty(0)
    /\ InitView
    /\ ops = 0
    /\ missingFields = {}
    /\ queue = <<>>
    /\ probe = NoProbe
    /\ storage \in {NoStorage} \cup {saveState(snap) : snap \in StoredSnapshots}
    /\ boot = [NoBoot EXCEPT !.phase = "mounted", !.before = storage]

NextStartup ==
    \/ loadEffect
    \/ persistEffect
    \/ remount
    \/ renderLoaded

SpecStartup == InitStartup /\ [][NextStartup]_vars

\* several handler calls between two renders
CallLists == {<<>>, <<1>>, <<2, 1>>}

InitBatch == InitFrom({Overlapping, Spread}, LoadedTasks, BatchOps)

NextBatch ==
    \/ \E h \in ModelHours, ids \in CallLists : callUpdateRecordHour(h, ids)
    \/ \E h \in ModelHours, ids \in CallLists : callUpdateScheduleHour(h, ids)
    \/ flushUpdates

SpecBatch == InitBatch /\ [][NextBatch]_vars

\* one row of the daily statistics, computed for drawn planned / credit
\* totals
MaxPlanned == 5
MaxCreditHours == 6

renderRow ==
    /\ ~probe.done
    /\ probe' = [probe EXCEPT
                    !.done = TRUE,
                    !.percentage = percentageOf(probe.planned, probe.credit),
                    !.statusColor =
                        statusColor(percentageOf(probe.planned, probe.credit))]
    /\ UNCHANGED <<appState, viewState, idSeq, last, ops, missingFields,
                   queue, storage, boot>>

InitRow ==
    /\ InitEmpty(SeedTasks)
    /\ InitView
    /\ ops = 0
    /\ missingFields = {}
    /\ queue = <<>>
    /\ \E p \in 0..MaxPlanned, c \in 0..(MaxCreditHours * CreditUnit) :
          probe = [NoProbe EXCEPT !.planned = p, !.credit = c]
    /\ storage = NoStorage
    /\ boot = NoBoot

NextRow == renderRow

SpecRow == InitRow /\ [][NextRow]_vars
\* ------------------------------------------------------------ properties
storedList(store, date, hour) == Lookup(hoursOf(store, date), hour, <<>>)

\* every hour list held by the three stores
ListsOfDays(store) ==
    UNION {{store[d].hours[h] : h \in DOMAIN store[d].hours} : d \in DOMAIN store}

StoredLists ==
    ListsOfDays(schedule) \cup ListsOfDays(records) \cup
    {recurringSchedule[h] : h \in DOMAIN recurringSchedule}

ToggleOps == {"schedule", "record", "recurring"}

\* the list the cell of a toggle holds now / shows now
cellNow(l) ==
    IF l.op = "schedule" THEN storedList(schedule, l.date, l.hour)
    ELSE IF l.op = "record" THEN storedList(records, l.date, l.hour)
    ELSE Lookup(recurringSchedule, l.hour, <<>>)

shownNow(l) ==
    IF l.op = "schedule"
    THEN Lookup(EffectiveSchedule(schedule, recurringSchedule, l.date).hours,
                l.hour, <<>>)
    ELSE cellNow(l)

NoDuplicates(list) ==
    \A i, j \in 1..Len(list) : i # j => list[i] # list[j]

\* new is old with every T taken out and nothing else moved
WithoutId(old, new, T) ==
    /\ Len(new) = Cardinality({i \in 1..Len(old) : old[i] # T})
    /\ \A i \in 1..Len(old) :
          old[i] # T =>
              new[i - Cardinality({j \in 1..i : old[j] = T})] = old[i]

DaysWithoutId(old, new, T) ==
    /\ DOMAIN new = DOMAIN old
    /\ \A d \in DOMAIN old :
          /\ DOMAIN new[d].hours = DOMAIN old[d].hours
          /\ \A h \in DOMAIN old[d].hours :
                /\ ~includes(new[d].hours[h], T)
                /\ WithoutId(old[d].hours[h], new[d].hours[h], T)

\* C1: a deleteTask(T) step leaves no task with id T in tasks and no T in
\* any hour list of schedule, recurringSchedule or records, and every
\* other id keeps its place relative to the ids that remain.
C1_DeleteCascade ==
    [][last'.op = "deleteTask" =>
         LET T == last'.id IN
         /\ \A i \in 1..Len(tasks') : tasks'[i].id # T
         /\ DaysWithoutId(schedule, schedule', T)
         /\ DaysWithoutId(records, records', T)
         /\ DOMAIN recurringSchedule' = DOMAIN recurringSchedule
         /\ \A h \in DOMAIN recurringSchedule :
               /\ ~includes(recurringSchedule'[h], T)
               /\ WithoutId(recurringSchedule[h], recurringSchedule'[h], T)
      ]_vars

\* a deletion whose id sat in all three stores, with other ids left behind
C1_Witness ==
    /\ last.op = "deleteTask"
    /\ last.before[1] > 0 /\ last.before[2] > 0 /\ last.before[3] > 0
    /\ \E l \in StoredLists : Len(l) >= 2

\* C2: every hour list stored in schedule, recurringSchedule and records
\* holds at most 4 task-ids.
C2_SlotCapacity ==
    \A l \in StoredLists : Len(l) <= SlotCapacity

\* C3: toggling an id that the cell neither stores nor shows into a cell
\* that holds 4 ids leaves exactly the old 2nd, 3rd and 4th ids followed by
\* the new id.
C3_FifoEviction ==
    (/\ last.op \in ToggleOps
     /\ Len(last.stored) = SlotCapacity
     /\ ~includes(last.stored, last.id)
     /\ ~includes(last.before, last.id))
    => cellNow(last) = Tail(last.stored) \o <<last.id>>

C5_NoDuplicateIds ==
    \A l \in StoredLists : NoDuplicates(l)

\* a day toggle that wrote a list of two ids over a template sharing one
C5_Witness ==
    /\ last.op = "schedule"
    /\ Len(cellNow(last)) >= 2
    /\ \E i \in 1..Len(cellNow(last)) :
          includes(Lookup(recurringSchedule, last.hour, <<>>),
                   cellNow(last)[i])

\* day-specific ids in stored order, then the template ids not among them
UnionDayFirst(day, template) ==
    day \o SelectSeq(template, LAMBDA x : ~includes(day, x))

ProbeDates == 1..(NumDates + 1)
ProbeHours == 8..(9 + NumHours)

\* C6: for every date and hour the effective list is the duplicate-free
\* union of the day's list and the template's list, day ids first; missing
\* entries count as empty lists.
C6_EffectiveUnion ==
    \A d \in ProbeDates, h \in ProbeHours :
       LET eff == Lookup(EffectiveSchedule(schedule, recurringSchedule,
                                           d).hours, h, <<>>)
       IN /\ eff = UnionDayFirst(storedList(schedule, d, h),
                                 Lookup(recurringSchedule, h, <<>>))
          /\ NoDuplicates(eff)

\* a cell whose day list and template list overlap without being equal
C6_Witness ==
    \E d \in Dates, h \in ModelHours :
       LET day == storedList(schedule, d, h)
           template == Lookup(recurringSchedule, h, <<>>)
       IN /\ day # <<>>
          /\ \E i \in 1..Len(template) : includes(day, template[i])
          /\ \E i \in 1..Len(template) : ~includes(day, template[i])
          /\ \E e \in ProbeDates : e \notin DOMAIN schedule

\* C7: after setRecurringHour(hour, ids) the template of that hour is
\* exactly ids, no dropped id survives in it, and the effective schedule of
\* every date shows the new template value for that hour.
C7_RecurringReplace ==
    last.op = "recurring" =>
       /\ Lookup(recurringSchedule, last.hour, <<"none">>) = last.after
       /\ \A i \in 1..Len(last.before) :
             ~includes(last.after, last.before[i]) =>
                 ~includes(recurringSchedule[last.hour], last.before[i])
       /\ \A d \in ProbeDates :
             Lookup(EffectiveSchedule(schedule, recurringSchedule, d).hours,
                    last.hour, <<>>)
               = UnionDayFirst(storedList(schedule, d, last.hour), last.after)

\* a template edit that dropped an id while some date holds its own ids
\* for that hour
C7_Witness ==
    /\ last.op = "recurring"
    /\ \E i \in 1..Len(last.before) : ~includes(last.after, last.before[i])
    /\ \E d \in Dates : storedList(schedule, d, last.hour) # <<>>

\* p is num / den rounded to the nearest integer, halves upward
IsRounded(p, num, den) ==
    /\ 2 * p * den - den <= 2 * num
    /\ 2 * num < 2 * p * den + den

hoursHolding(dayData, id) ==
    {h \in DOMAIN dayData.hours : includes(dayData.hours[h], id)}

RowOf(id) ==
    {dailyStats[i] : i \in {j \in 1..Len(dailyStats) : dailyStats[j].id = id}}

\* C8: per task, planned is the number of hours whose effective list holds
\* it, actual the sum of 1/N over the hours recording it among N ids, and
\* percentage round(actual/planned*100), or 100 / 0 without a plan; the
\* schedule {9:[A]} with record {9:[A,B]} gives A 1, 0.5, 50 and B 0, 0.5,
\* 100.
C8_DailyAdherence ==
    activeTab = "stats" =>
    /\ \A i \in 1..Len(tasks) :
          LET id == tasks[i].id
              P == hoursHolding(currentSchedule, id)
              A == hoursHolding(currentRecord, id)
              planned == Cardinality(P)
              credit == SumOver(A, [h \in A |->
                           CreditUnit \div Len(currentRecord.hours[h])])
          IN IF planned = 0 /\ credit = 0 THEN RowOf(id) = {}
             ELSE /\ Cardinality(RowOf(id)) = 1
                  /\ \A r \in RowOf(id) :
                        /\ r.planned = planned
                        /\ r.credit = credit
                        /\ IF planned > 0
                           THEN IsRounded(r.percentage, credit * 100,
                                          planned * CreditUnit)
                           ELSE r.percentage = 100
    /\ (/\ currentSchedule.hours = Put(EmptyObj, 9, <<1>>)
        /\ currentRecord.hours = Put(EmptyObj, 9, <<1, 2>>)
        /\ {1, 2} \subseteq registryIds)
       => /\ \A r \in RowOf(1) :
                r.planned = 1 /\ 2 * r.credit = CreditUnit
                /\ r.actual = 5 /\ r.percentage = 50
          /\ \A r \in RowOf(2) :
                r.planned = 0 /\ 2 * r.credit = CreditUnit
                /\ r.actual = 5 /\ r.percentage = 100
          /\ RowOf(1) # {} /\ RowOf(2) # {}

\* the statistics tab showing schedule {9:[1]} against record {9:[1,2]}
C8_Witness ==
    /\ activeTab = "stats"
    /\ currentSchedule.hours = Put(EmptyObj, 9, <<1>>)
    /\ currentRecord.hours = Put(EmptyObj, 9, <<1, 2>>)

\* C9: the status band of a percentage is on-track from 80, at-risk from
\* 50 to 79 and off-track below 50, one band for every percentage.
C9_StatusBands ==
    probe.done =>
       /\ probe.statusColor \in {"#10b981", "#f59e0b", "#f43f5e"}
       /\ probe.statusColor = "#10b981" <=> probe.percentage >= 80
       /\ probe.statusColor = "#f59e0b" <=>
             (probe.percentage >= 50 /\ probe.percentage <= 79)
       /\ probe.statusColor = "#f43f5e" <=> probe.percentage < 50

\* a rendered row standing exactly on the lower bound of on-track
C9_Witness ==
    /\ probe.done
    /\ probe.percentage = 80
    /\ probe.planned > 0

\* days of the window whose effective schedule plans at least one id
PlannedDays(days) ==
    {d \in days :
        \E h \in DOMAIN EffectiveSchedule(schedule, recurringSchedule,
                                          d).hours :
           EffectiveSchedule(schedule, recurringSchedule, d).hours[h] # <<>>}

\* C10: the window average is the rounded mean of the per-day scores over
\* the days with at least one planned slot; unplanned days count neither in
\* the sum nor in the number of days (scores 100 and 50 on the two planned
\* days of a week average 75).
C10_WindowAverage ==
    analysisMode # "none" =>
       LET days == windowDays(analysisMode, currentDate)
           planned == PlannedDays(days)
           total == SumOver(planned, [d \in planned |-> chartData[d].score])
       IN /\ \A d \in days : chartData[d].hasPlan <=> d \in planned
          /\ planned # {} =>
                IsRounded(averageScore, total, Cardinality(planned))
          /\ (/\ Cardinality(planned) = 2
              /\ planned # days
              /\ {chartData[d].score : d \in planned} = {100, 50})
             => averageScore = 75

\* the weekly analysis of a week with two planned days scoring 100 and 50
\* and the remaining days unplanned
C10_Witness ==
    /\ activeTab = "stats"
    /\ analysisMode = "weekly"
    /\ LET days == windowDays("weekly", currentDate)
       IN /\ Cardinality(PlannedDays(days)) = 2
          /\ Cardinality(days \ PlannedDays(days)) = 5
          /\ {chartData[d].score : d \in PlannedDays(days)} = {100, 50}

idsOf(list) == {list[i] : i \in 1..Len(list)}

C12_NoDataWindow ==
    analysisMode # "none" =>
       LET days == windowDays(analysisMode, currentDate)
       IN /\ PlannedDays(days) = {} =>
                /\ averageScore = 0
                /\ \A d \in days : ~chartData[d].hasPlan /\ chartData[d].score = 0
          /\ PlannedDays(days) # {} =>
                \E d \in days : chartData[d].hasPlan

\* a window without any plan is displayed although the current day has
\* records
C12_Witness ==
    /\ activeTab = "stats"
    /\ analysisMode # "none"
    /\ PlannedDays(windowDays(analysisMode, currentDate)) = {}
    /\ \E h \in ModelHours : storedList(records, currentDate, h) # <<>>
    /\ averageScore = 0

\* what the claimed formulas say about task i of the pool: the current
\* value by mode, and, when dueDefined, the capped quotient and completion
CurrentValueByMode(i) ==
    LET id == tasks[i].id
        A == hoursHolding(currentRecord, id)
    IN poolBlocks[i].currentVal =
          IF tasks[i].targets.mode = "count" THEN Cardinality(A) * CreditUnit
          ELSE SumOver(A, [h \in A |->
                   CreditUnit \div Len(currentRecord.hours[h])])

ProgressByQuotient(i, reached) ==
    LET b == poolBlocks[i]
        t == tasks[i].targets
    IN IF reached
       THEN b.progress = [num |-> 100, den |-> 1] /\ b.isCompleted
       ELSE /\ b.progress.num * t.value * CreditUnit
                 = b.currentVal * t.frequency * 100 * b.progress.den
            /\ b.progress.num < 100 * b.progress.den
            /\ ~b.isCompleted

\* C13 as stated: for every task with targets the current value follows the
\* mode and progress is min(current / dailyTarget * 100, 100), complete
\* exactly from 100; with a daily target of 0 any positive current value
\* makes the quotient exceed 100.
C13_TargetProgress ==
    activeTab = "tracker" =>
       \A i \in 1..Len(tasks) :
          LET t == tasks[i].targets
              cur == poolBlocks[i].currentVal
          IN t # NoTargets =>
                /\ CurrentValueByMode(i)
                /\ (t.value > 0 \/ cur > 0) =>
                      ProgressByQuotient(i,
                         cur * t.frequency >= t.value * CreditUnit)

\* C13 (amended): the same for every task whose daily target is positive;
\* a task whose targets give a daily target of 0 has progress 0 and is
\* never complete.
C13_TargetProgressPositive ==
    activeTab = "tracker" =>
       \A i \in 1..Len(tasks) :
          LET t == tasks[i].targets
              cur == poolBlocks[i].currentVal
          IN t # NoTargets =>
                /\ CurrentValueByMode(i)
                /\ t.value > 0 =>
                      ProgressByQuotient(i,
                         cur * t.frequency >= t.value * CreditUnit)
                /\ t.value = 0 =>
                      /\ poolBlocks[i].progress = [num |-> 0, den |-> 1]
                      /\ ~poolBlocks[i].isCompleted

\* the pool shows a count task and a duration task recorded in the same
\* hour, one complete and one part-way
C13_Witness ==
    /\ activeTab = "tracker"
    /\ \E i, j \in 1..Len(tasks) :
          /\ tasks[i].targets.mode = "count"
          /\ tasks[j].targets.mode = "duration"
          /\ tasks[j].targets.value > 0
          /\ \E h \in ModelHours :
                /\ includes(storedList(records, currentDate, h), tasks[i].id)
                /\ includes(storedList(records, currentDate, h), tasks[j].id)
          /\ poolBlocks[i].isCompleted
          /\ poolBlocks[j].progress.num > 0
          /\ ~poolBlocks[j].isCompleted

\* C14: a task without targets has no row in the window's per-task
\* summaries, and in the task pool it shows progress 0 and is never
\* complete, whatever is recorded for it.
C14_NoTargetNoProgress ==
    /\ analysisMode # "none" =>
          \A k \in 1..Len(taskSummaries) :
             \A i \in 1..Len(tasks) :
                tasks[i].id = taskSummaries[k].id
                   => tasks[i].targets # NoTargets
    /\ activeTab = "tracker" =>
          \A i \in 1..Len(tasks) :
             tasks[i].targets = NoTargets =>
                /\ poolBlocks[i].progress = [num |-> 0, den |-> 1]
                /\ ~poolBlocks[i].isCompleted

\* the document fails validation: its text does not parse, or its tasks is
\* not a list, or its schedule is absent
FailsValidation(doc) ==
    \/ doc.kind # "object"
    \/ ~("tasks" \in doc.has /\ doc.tasksIsList)
    \/ "schedule" \notin doc.has

\* C15: an import of a document that fails validation leaves the state as
\* it was and shows the invalid-format alert, in every such case.
C15_InvalidImportSignalled ==
    (last.op = "import" /\ FailsValidation(last.doc)) =>
       /\ stateSnapshot = last.prev
       /\ last.alert

\* C16 as stated: an import of a document whose tasks is a list and whose
\* schedule is present leaves the state equal to the document.
C16_ImportReplaces ==
    (last.op = "import" /\ ~FailsValidation(last.doc)) =>
       stateSnapshot = last.doc

\* C16 (amended): when the user confirms the overwrite prompt, an import of
\* a document whose tasks is a list and whose schedule is present makes the
\* state equal to the document in that one step (fields the document lacks
\* are left undefined, nothing of the previous state is kept); when the
\* user declines, the state stays as it was and no alert is shown.
C16_ConfirmedImportReplaces ==
    [][(last'.op = "import" /\ ~FailsValidation(last'.doc)) =>
          /\ last'.prev = stateSnapshot
          /\ ~last'.alert
          /\ IF last'.accepted
             THEN /\ tasks' = last'.doc.tasks
                  /\ schedule' = last'.doc.schedule
                  /\ recurringSchedule' = last'.doc.recurringSchedule
                  /\ records' = last'.doc.records
                  /\ reviews' = last'.doc.reviews
                  /\ missingFields' = FieldNames \ last'.doc.has
             ELSE UNCHANGED <<appState, missingFields>>]_vars

\* a confirmed import of a backup without records and reviews over a state
\* that held tasks, plans, records and a review
C16_Witness ==
    /\ last.op = "import"
    /\ last.accepted
    /\ ~FailsValidation(last.doc)
    /\ last.prev.tasks # <<>>
    /\ last.prev.schedule # EmptyObj
    /\ last.prev.records # EmptyObj
    /\ last.prev.reviews # EmptyObj
    /\ last.doc.tasks # last.prev.tasks
    /\ {"records", "reviews"} \cap last.doc.has = {}
    /\ records = EmptyObj
    /\ reviews = EmptyObj

UniqueIds(taskList) ==
    \A i, j \in 1..Len(taskList) :
       taskList[i].id = taskList[j].id => i = j

\* C18: an addTask step appends exactly one task at the end of the
\* registry, made of the given fields and an id no task of the registry
\* has, and changes nothing else; every addTask, updateTask and deleteTask
\* step from a registry with pairwise distinct ids leaves the ids pairwise
\* distinct.
C18_AddTaskFreshId ==
    [][/\ last'.op = "addTask" =>
             /\ Len(tasks') = Len(tasks) + 1
             /\ SubSeq(tasks', 1, Len(tasks)) = tasks
             /\ tasks'[Len(tasks')] = [last'.task EXCEPT !.id = last'.id]
             /\ last'.id \notin registryIds
             /\ last'.id # NULL
             /\ UNCHANGED <<schedule, recurringSchedule, records, reviews,
                            missingFields>>
       /\ (/\ last'.op \in {"addTask", "updateTask", "deleteTask"}
           /\ UniqueIds(tasks))
             => UniqueIds(tasks')
      ]_vars

\* a task was added after another task had been deleted from the registry
C18_Witness ==
    /\ last.op = "addTask"
    /\ tasks # <<>>
    /\ tasks[Len(tasks)].id = last.id
    /\ \E id \in TaskIds : id < last.id /\ id \notin registryIds
    /\ Len(tasks) >= 2

\* C19: when the queued calls have been applied, every call's list is the
\* stored list of its (date, hour) unless a later call of the same batch
\* targeted the same cell: two setRecordHour calls for different hours of
\* one date both take effect.
C19_QueuedCallsTakeEffect ==
    last.op = "flush" =>
       \A k \in 1..Len(last.calls) :
          LET u == last.calls[k]
              store == IF u.op = "record" THEN records ELSE schedule
          IN (\A j \in (k + 1)..Len(last.calls) :
                 ~(/\ last.calls[j].op = u.op
                   /\ last.calls[j].date = u.date
                   /\ last.calls[j].hour = u.hour))
             => /\ u.date \in DOMAIN store
                /\ u.hour \in DOMAIN store[u.date].hours
                /\ store[u.date].hours[u.hour] = u.taskIds

\* the list the record views read for an hour of the current date is the
\* stored list, empty when the date or the hour has no entry
RecordReadIsStored ==
    \A h \in ProbeHours :
       Lookup(currentRecord.hours, h, <<>>) =
          IF currentDate \in DOMAIN records
             /\ h \in DOMAIN records[currentDate].hours
          THEN records[currentDate].hours[h]
          ELSE <<>>

\* C20: a step that sets a template hour or a day-schedule hour leaves the
\* records of every date as they were, and before and after every step the
\* record list read for an hour is exactly the stored records entry,
\* whatever the template holds.
C20_RecordsDaySpecific ==
    [][/\ last'.op \in {"schedule", "recurring"} => records' = records
       /\ RecordReadIsStored
       /\ RecordReadIsStored'
      ]_vars

\* the template of an hour was just set while the current date's record of
\* that hour holds other ids
C20_Witness ==
    /\ last.op = "recurring"
    /\ \E h \in ModelHours :
          /\ Lookup(recurringSchedule, h, <<>>) # <<>>
          /\ storedList(records, currentDate, h) # <<>>
          /\ idsOf(Lookup(recurringSchedule, h, <<>>))
                \cap idsOf(storedList(records, currentDate, h)) = {}
\* C21: writing a state with all five fields as JSON and parsing the text
\* gives back the same state (tasks in order, every slot list of every date
\* and hour, the recurring template and the reviews), and importing an
\* exported backup leaves the state as it was at export
C21_JsonRoundTrip ==
    /\ missingFields = {}
          => jsonParse(jsonStringify(stateSnapshot)) = stateSnapshot
    /\ (last.op = "import" /\ last.accepted)
          => /\ last.doc = last.prev
             /\ stateSnapshot = last.prev

C21_Witness ==
    /\ last.op = "import"
    /\ last.accepted
    /\ \E d \in DOMAIN schedule : \E h \in DOMAIN schedule[d].hours :
           schedule[d].hours[h] = <<>>
    /\ Len(tasks) < 3
    /\ \E i \in 1..Len(tasks) : tasks[i].targets # NoTargets
    /\ reviews # EmptyObj
    /\ recurringSchedule # EmptyObj

\* C22: a write of the recurring template at one hour leaves the template
\* list of every other hour as it was, and leaves tasks, schedule, records
\* and reviews unchanged
C22_RecurringHourFrame ==
    [][last'.op = "recurring"
          => /\ \A h \in ModelHours \ {last'.hour} :
                   /\ (h \in DOMAIN recurringSchedule')
                          = (h \in DOMAIN recurringSchedule)
                   /\ Lookup(recurringSchedule', h, <<>>)
                          = Lookup(recurringSchedule, h, <<>>)
             /\ UNCHANGED <<tasks, schedule, records, reviews>>]_vars

\* C23: after a day-mode schedule toggle the stored list of the date and
\* hour holds only ids it stored before and possibly the toggled id, and
\* the recurring template is unchanged
C23_DayToggleKeepsTemplateOut ==
    [][last'.op = "schedule"
          => /\ idsOf(Lookup(hoursOf(schedule', last'.date), last'.hour,
                             <<>>))
                   \subseteq
                      (idsOf(Lookup(hoursOf(schedule, last'.date),
                                    last'.hour, <<>>))
                       \cup {last'.id})
             /\ UNCHANGED recurringSchedule]_vars

\* C24: after a day-mode schedule toggle of an id that the effective
\* schedule of the date and hour showed, the effective schedule of that
\* date and hour no longer holds the id
C24_ToggleOffHidesId ==
    (last.op = "schedule" /\ includes(last.before, last.id))
        => ~includes(shownNow(last), last.id)

\* C25: without import, every id stored in a slot of schedule,
\* recurringSchedule or records is the id of a task of the registry, also
\* after a toggle that follows the deletion of a task
C25_ReferentialIntegrity ==
    \A l \in StoredLists : idsOf(l) \subseteq registryIds

C25_Witness ==
    /\ last.op \in ToggleOps
    /\ includes(last.after, last.id)
    /\ \E id \in 1..idSeq : id \notin registryIds
    /\ selectedTaskId \in registryIds

\* C26: a write of the day schedule at (date, hour) changes only that list:
\* the other hours of the date, the other dates, tasks, the recurring
\* template, records and reviews stay as they were; a write of the review
\* of a date changes only the review of that date
C26_ScheduleAndReviewFrame ==
    [][/\ last'.op = "schedule"
           => /\ DOMAIN schedule' = DOMAIN schedule \cup {last'.date}
              /\ \A d \in DOMAIN schedule \ {last'.date} :
                     schedule'[d] = schedule[d]
              /\ DOMAIN hoursOf(schedule', last'.date)
                     = DOMAIN hoursOf(schedule, last'.date) \cup {last'.hour}
              /\ \A h \in DOMAIN hoursOf(schedule, last'.date)
                              \ {last'.hour} :
                     hoursOf(schedule', last'.date)[h]
                        = hoursOf(schedule, last'.date)[h]
              /\ UNCHANGED <<tasks, recurringSchedule, records, reviews>>
       /\ last'.op = "review"
           => /\ DOMAIN reviews' = DOMAIN reviews \cup {last'.date}
              /\ \A d \in DOMAIN reviews \ {last'.date} :
                     reviews'[d] = reviews[d]
              /\ UNCHANGED <<tasks, schedule, recurringSchedule, records>>
      ]_vars

C26_Witness ==
    /\ last.op = "schedule"
    /\ DOMAIN schedule \ {last.date} # {}
    /\ DOMAIN hoursOf(schedule, last.date) \ {last.hour} # {}
    /\ \A h \in DOMAIN hoursOf(schedule, last.date) :
           hoursOf(schedule, last.date)[h] # <<>>

\* C27: when the mount of App has settled over a stored snapshot, the state
\* in memory is that snapshot and storage holds that snapshot, whether or
\* not the effects ran a second time
C27_StartupKeepsSnapshot ==
    (boot.phase = "settled" /\ boot.before.present)
        => /\ stateSnapshot = jsonParse(boot.before.text[1])
           /\ storage = boot.before

\* C28: for every list a view can hand to its toggle (the effective
\* schedule list, the record list and the template list of an hour) and
\* every registry id not in it, keeping the last four of the appended list
\* gives the same list as appending below four ids and else dropping the
\* first id and appending
C28_InsertionsAgree ==
    \A h \in ModelHours : \A id \in registryIds :
        \A current \in {Lookup(currentSchedule.hours, h, <<>>),
                         Lookup(currentRecord.hours, h, <<>>),
                         Lookup(recurringSchedule, h, <<>>)} :
            ~includes(current, id)
                => toggleListTracker(current, id) = toggleList(current, id)

\* C29: in a week or month window every day has at most as many completed
\* slots as planned slots, every day's score and the window average are
\* between 0 and 100, and every task's completion rate is between 0 and 100
C29_ScoresWithinRange ==
    analysisMode # "none"
        => /\ \A d \in windowDays(analysisMode, currentDate) :
                 /\ completedSlots(schedule, recurringSchedule, records, d)
                       <= totalPlannedSlots(schedule, recurringSchedule, d)
                 /\ chartData[d].score \in 0..100
           /\ averageScore \in 0..100
           /\ \A i \in 1..Len(taskSummaries) :
                 taskSummaries[i].completionRate \in 0..100

C29_Witness ==
    /\ analysisMode # "none"
    /\ \E d \in windowDays(analysisMode, currentDate) :
           /\ chartData[d].score > 0
           /\ chartData[d].score < 100
    /\ \E d \in windowDays(analysisMode, currentDate) :
           Len(Lookup(hoursOf(records, d), 9, <<>>))
              > Len(rollupPlanned(schedule, recurringSchedule, d, 9))
    /\ \E i \in 1..Len(tasks) :
           /\ tasks[i].targets.value > 0
           /\ actualTotalOf(tasks[i], records,
                             windowDays(analysisMode, currentDate))
                  * tasks[i].targets.frequency
              > tasks[i].targets.value * CreditUnit
                  * Cardinality(windowDays(analysisMode, currentDate))
    /\ \E i \in 1..Len(taskSummaries) :
           /\ taskSummaries[i].completionRate > 0
           /\ taskSummaries[i].completionRate < 100

\* C30: after an import that replaced the state, all five fields of the
\* state are present, so the next render can read the record and the review
\* of the current day
C30_ImportedStateWellFormed ==
    (last.op = "import" /\ last.accepted /\ ~FailsValidation(last.doc))
        => /\ missingFields = {}
           /\ Rendered

====
